---- MODULE Spec2Model ----
(***************************************************************************)
(* Verification model of the 3D motion planning repository:                *)
(*   src/p_u.py              create_grid, valid_actions, a_star,           *)
(*                           heuristic, collinearity_check, prune_path     *)
(*   src/motion_planning.py  MotionPlanning (flight state machine,         *)
(*                           plan_path)                                    *)
(*                                                                         *)
(* Conventions.  Cells are pairs <<x, y>> with the 0-based indices of the  *)
(* code.  A grid (numpy array of 0/1) is a record [rows, cols, occ] where  *)
(* occ is the set of cells holding 1.  Real-valued inputs (obstacle        *)
(* records, local positions) are held in half units: the integer v stands  *)
(* for the real v/2, so floor, ceil and int() are not the identity.        *)
(* src/p_u.py line 144 lacks the colon that ends a def header; the         *)
(* function bodies are modelled as written.                                *)
(***************************************************************************)
EXTENDS Integers, Sequences, FiniteSets, TLC

VARIABLES
    \* ---- a_star (src/p_u.py 85-133)
    grid, start, goal, queue, visited, branch, found, a_err, path, path_cost, a_pc,
    \* ---- create_grid (src/p_u.py 6-37)
    data, drone_altitude, safety_distance, cg, cg_i, cg_pc,
    \* ---- prune_path (src/p_u.py 150-165)
    p_path, pruned_path, p_i, p_pc,
    \* ---- MotionPlanning (src/motion_planning.py 25-187) and its telemetry
    flight_state, waypoints, target_position, in_mission, commands, raised, plan,
    armed, guided, local_position, local_velocity, event,
    \* ---- plan_path (src/motion_planning.py 142, 169): the local positions
    \* global_to_local returned for the vehicle and for the goal
    local_pos, local_goal

avars == <<grid, start, goal, queue, visited, branch, found, a_err, path, path_cost, a_pc>>

gvars == <<data, drone_altitude, safety_distance, cg, cg_i, cg_pc>>

pvars == <<p_path, pruned_path, p_i, p_pc>>

fvars == <<flight_state, waypoints, target_position, in_mission, commands, raised, plan,
           armed, guided, local_position, local_velocity, event>>

lvars == <<local_pos, local_goal>>

vars == <<avars, gvars, pvars, fvars, lvars>>

(***************************************************************************)
(* Bounds of the model.                                                    *)
(***************************************************************************)
\* a_star is run on every grid of rows x cols cells with rows * cols <= MaxCells
MaxCells == 9

\* create_grid is run on 1 .. MaxObstacles obstacle records whose fields, in
\* half units, are centres in 0 .. MaxCentreH, half extents in 1 .. MaxExtentH
\* and centre altitudes in 0 .. MaxObstacleAltH, at a drone altitude in
\* 0 .. MaxDroneAltH and a safety distance in 0 .. MaxSafetyH
MaxObstacles == 2

MaxCentreH == 2

MaxExtentH == 2

MaxObstacleAltH == 1

MaxDroneAltH == 3

MaxSafetyH == 2

\* prune_path is run on every path of at most MaxPathLen cells with both
\* coordinates in 0 .. MaxPruneCoord
MaxPathLen == 5

MaxPruneCoord == 2

\* prune_path is also run on every run of 3 .. MaxLineLen cells that starts at
\* a cell of those and steps by one and the same unit move
MaxLineLen == 5

(***************************************************************************)
(* Arithmetic helpers.                                                     *)
(***************************************************************************)
Abs(n) == IF n < 0 THEN -n ELSE n

Min2(a, b) == IF a <= b THEN a ELSE b

Max2(a, b) == IF a >= b THEN a ELSE b

\* sqrt(p) < c + sqrt(q) for integers p, q >= 0 and c >= 0, decided exactly
SqrtLt(p, c, q) ==
    LET L == p - c * c - q
    IN  L < 0 \/ L * L < 4 * c * c * q

\* sqrt(p) <= c + sqrt(q) for integers p, q >= 0 and c >= 0, decided exactly
SqrtLeq(p, c, q) ==
    LET L == p - c * c - q
    IN  L <= 0 \/ L * L <= 4 * c * c * q

Cells(g) == (0 .. g.rows - 1) \X (0 .. g.cols - 1)

\* np.floor, np.ceil and int() of the real v/2
FloorHalf(v) == v \div 2

CeilHalf(v) == -((-v) \div 2)

PyIntHalf(v) == IF v >= 0 THEN v \div 2 ELSE -((-v) \div 2)

\* np.clip(a, lo, hi)
Clip(a, lo, hi) == Min2(Max2(a, lo), hi)

SetMin(S) == CHOOSE x \in S : \A y \in S : x <= y

SetMax(S) == CHOOSE x \in S : \A y \in S : x >= y

(***************************************************************************)
(* create_grid.  An obstacle record is [north, east, alt, d_north, d_east, *)
(* d_alt] in half units; drone_altitude and safety_distance are in half    *)
(* units too.  The state of the function is [north_min, east_min,          *)
(* north_size, east_size, grid].                                           *)
(***************************************************************************)
\* lines 13-23: the bounding box, the grid size and the empty grid
CreateGridBegin(d) ==
    LET idx == 1 .. Len(d)
        north_min == FloorHalf(SetMin({d[k].north - d[k].d_north : k \in idx}))
        north_max == CeilHalf(SetMax({d[k].north + d[k].d_north : k \in idx}))
        east_min == FloorHalf(SetMin({d[k].east - d[k].d_east : k \in idx}))
        east_max == CeilHalf(SetMax({d[k].east + d[k].d_east : k \in idx}))
        north_size == north_max - north_min
        east_size == east_max - east_min
    IN  [north_min |-> north_min, east_min |-> east_min,
         north_size |-> north_size, east_size |-> east_size,
         grid |-> [rows |-> north_size, cols |-> east_size, occ |-> {}]]

\* line 28
ObstacleRendered(ob, alt, sd) == ob.alt + ob.d_alt + sd > alt

\* lines 29-34: the list obstacle of four clipped, truncated indices
ObstacleIndices(c, ob, sd) ==
    << PyIntHalf(Clip(ob.north - ob.d_north - sd - 2 * c.north_min, 0, 2 * (c.north_size - 1))),
       PyIntHalf(Clip(ob.north + ob.d_north + sd - 2 * c.north_min, 0, 2 * (c.north_size - 1))),
       PyIntHalf(Clip(ob.east - ob.d_east - sd - 2 * c.east_min, 0, 2 * (c.north_size - 1))),
       PyIntHalf(Clip(ob.east - ob.d_east + sd - 2 * c.east_min, 0, 2 * (c.north_size - 1))) >>

\* line 35: the slice assignment writes the cells of the slice that exist
SliceAssign(g, o) ==
    [g EXCEPT !.occ = @ \cup {cl \in Cells(g) : /\ o[1] <= cl[1] /\ cl[1] <= o[2]
                                                /\ o[3] <= cl[2] /\ cl[2] <= o[4]}]

\* lines 27-35: one iteration of the for loop
CreateGridObstacle(c, ob, alt, sd) ==
    IF ObstacleRendered(ob, alt, sd)
    THEN [c EXCEPT !.grid = SliceAssign(@, ObstacleIndices(c, ob, sd))]
    ELSE c

RECURSIVE CreateGridLoop(_, _, _, _, _)
CreateGridLoop(c, d, k, alt, sd) ==
    IF k > Len(d) THEN c
    ELSE CreateGridLoop(CreateGridObstacle(c, d[k], alt, sd), d, k + 1, alt, sd)

\* line 37: the triple create_grid returns
CreateGridResult(c) ==
    [grid |-> c.grid, north_offset |-> c.north_min, east_offset |-> c.east_min]

create_grid(d, alt, sd) == CreateGridResult(CreateGridLoop(CreateGridBegin(d), d, 1, alt, sd))

(***************************************************************************)
(* Grids and the Action enum.                                              *)
(***************************************************************************)
\* numpy indexing grid[i, j]: an index in -size .. size-1 is accepted and a
\* negative one counts from the end; anything else raises IndexError
GridIdxOK(g, i, j) == i \in (-g.rows) .. (g.rows - 1) /\ j \in (-g.cols) .. (g.cols - 1)

\* mutant of GridAt: the grid is never consulted, every cell reads as free
GridAt_AlwaysFree(g, i, j) == 0

GridAt(g, i, j) == IF <<i % g.rows, j % g.cols>> \in g.occ THEN 1 ELSE 0

WEST == [name |-> "WEST", delta |-> <<0, -1>>, cost |-> 1]

EAST == [name |-> "EAST", delta |-> <<0, 1>>, cost |-> 1]

NORTH == [name |-> "NORTH", delta |-> <<-1, 0>>, cost |-> 1]

SOUTH == [name |-> "SOUTH", delta |-> <<1, 0>>, cost |-> 1]

\* list(Action): the members in definition order
Action == <<WEST, EAST, NORTH, SOUTH>>

\* mutant of RemovedActions: SOUTH is removed at the grid edge only, the
\* occupancy of the cell below is not looked at
RemovedActions_SouthUnchecked(g, current_node) ==
    LET n == g.rows - 1
        m == g.cols - 1
        x == current_node[1]
        y == current_node[2]
    IN  (IF x - 1 < 0 \/ GridAt(g, x - 1, y) = 1 THEN {NORTH} ELSE {})
        \cup (IF x + 1 > n THEN {SOUTH} ELSE {})
        \cup (IF y - 1 < 0 \/ GridAt(g, x, y - 1) = 1 THEN {WEST} ELSE {})
        \cup (IF y + 1 > m \/ GridAt(g, x, y + 1) = 1 THEN {EAST} ELSE {})

\* the directions valid_actions removes from list(Action)
RemovedActions(g, current_node) ==
    LET n == g.rows - 1
        m == g.cols - 1
        x == current_node[1]
        y == current_node[2]
    IN  (IF x - 1 < 0 \/ GridAt(g, x - 1, y) = 1 THEN {NORTH} ELSE {})
        \cup (IF x + 1 > n \/ GridAt(g, x + 1, y) = 1 THEN {SOUTH} ELSE {})
        \cup (IF y - 1 < 0 \/ GridAt(g, x, y - 1) = 1 THEN {WEST} ELSE {})
        \cup (IF y + 1 > m \/ GridAt(g, x, y + 1) = 1 THEN {EAST} ELSE {})

valid_actions(g, current_node) ==
    LET removed == RemovedActions(g, current_node)
        keep(a) == a \notin removed
    IN  SelectSeq(Action, keep)

\* valid_actions raises IndexError when a grid access that the short-circuit
\* "or" does evaluate has an index numpy rejects
valid_actions_raises(g, current_node) ==
    LET n == g.rows - 1
        m == g.cols - 1
        x == current_node[1]
        y == current_node[2]
    IN  \/ ~(x - 1 < 0) /\ ~GridIdxOK(g, x - 1, y)
        \/ ~(x + 1 > n) /\ ~GridIdxOK(g, x + 1, y)
        \/ ~(y - 1 < 0) /\ ~GridIdxOK(g, x, y - 1)
        \/ ~(y + 1 > m) /\ ~GridIdxOK(g, x, y + 1)

(***************************************************************************)
(* heuristic and the priority queue.  A queue entry (queue_cost, node) is  *)
(* the record [g, d2, node] standing for queue_cost = g + sqrt(d2): g is   *)
(* branch_cost and d2 the squared distance whose root np.linalg.norm       *)
(* returns.  Entries are compared as Python compares the tuples: by        *)
(* queue_cost, then by node (itself a tuple, compared lexicographically).  *)
(***************************************************************************)
\* the square of heuristic(position, goal_position)
heuristic2(position, goal_position) ==
    (position[1] - goal_position[1]) * (position[1] - goal_position[1])
    + (position[2] - goal_position[2]) * (position[2] - goal_position[2])

CostLt(e1, e2) ==
    IF e2.g >= e1.g THEN SqrtLt(e1.d2, e2.g - e1.g, e2.d2)
    ELSE ~SqrtLeq(e2.d2, e1.g - e2.g, e1.d2)

CostEq(e1, e2) == ~CostLt(e1, e2) /\ ~CostLt(e2, e1)

NodeLt(n1, n2) == n1[1] < n2[1] \/ (n1[1] = n2[1] /\ n1[2] < n2[2])

EntryLt(e1, e2) == CostLt(e1, e2) \/ (CostEq(e1, e2) /\ NodeLt(e1.node, e2.node))

\* mutant of QueueGetIdx: among the entries of least queue_cost the one put
\* first is taken, whatever its node
QueueGetIdx_FirstPut(q) ==
    CHOOSE i \in 1 .. Len(q) :
        /\ \A j \in 1 .. Len(q) : ~CostLt(q[j], q[i])
        /\ \A j \in 1 .. i - 1 : CostLt(q[i], q[j])

\* PriorityQueue.get(): the position (in insertion order) of the least entry
QueueGetIdx(q) ==
    CHOOSE i \in 1 .. Len(q) : \A j \in 1 .. Len(q) : j = i \/ ~EntryLt(q[j], q[i])

SeqRemoveAt(s, i) == SubSeq(s, 1, i - 1) \o SubSeq(s, i + 1, Len(s))

(***************************************************************************)
(* a_star.  The search state is the record [queue, visited, branch, found, *)
(* err]; visited holds 1-tuples <<n>> for integers and pairs <<x, y>> for  *)
(* cells, because set(start) is the set of the two integers of start, not  *)
(* the set holding the cell start.                                         *)
(***************************************************************************)
AStarInit(st) ==
    [queue |-> << [g |-> 0, d2 |-> 0, node |-> st] >>,
     visited |-> {<<st[1]>>, <<st[2]>>},
     branch |-> <<>>,
     found |-> FALSE,
     err |-> "none"]

\* the for loop of lines 109-118 over a list of actions, applied in order
RECURSIVE ExpandActions(_, _, _, _, _)
ExpandActions(s, acts, current_node, current_cost, gl) ==
    IF acts = <<>> THEN s
    ELSE
        LET action == Head(acts)
            da == action.delta
            next_node == <<current_node[1] + da[1], current_node[2] + da[2]>>
            branch_cost == current_cost + action.cost
            s2 == IF next_node \notin s.visited
                  THEN [s EXCEPT
                          !.visited = @ \cup {next_node},
                          !.branch = [c \in (DOMAIN @) \cup {next_node} |->
                                        IF c = next_node
                                        THEN [cost |-> branch_cost,
                                              parent |-> current_node,
                                              action |-> action.name]
                                        ELSE @[c]],
                          !.queue = Append(@, [g |-> branch_cost,
                                               d2 |-> heuristic2(next_node, gl),
                                               node |-> next_node])]
                  ELSE s
        IN  ExpandActions(s2, Tail(acts), current_node, current_cost, gl)

\* mutant of AStarIter: current_cost is never read back from branch
AStarIter_CostNotRead(s, g, st, gl) ==
    LET idx == QueueGetIdx(s.queue)
        current_node == s.queue[idx].node
        popped == [s EXCEPT !.queue = SeqRemoveAt(@, idx)]
        current_cost == 0
    IN  IF current_node # st /\ current_node \notin DOMAIN s.branch
        THEN [popped EXCEPT !.err = "KeyError"]
        ELSE IF current_node = gl
        THEN [popped EXCEPT !.found = TRUE]
        ELSE IF valid_actions_raises(g, current_node)
        THEN [popped EXCEPT !.err = "IndexError"]
        ELSE ExpandActions(popped, valid_actions(g, current_node),
                           current_node, current_cost, gl)

\* one iteration of the while loop of lines 96-118 (the queue is not empty)
AStarIter(s, g, st, gl) ==
    LET idx == QueueGetIdx(s.queue)
        current_node == s.queue[idx].node
        popped == [s EXCEPT !.queue = SeqRemoveAt(@, idx)]
        current_cost == IF current_node = st THEN 0 ELSE s.branch[current_node].cost
    IN  IF current_node # st /\ current_node \notin DOMAIN s.branch
        THEN [popped EXCEPT !.err = "KeyError"]
        ELSE IF current_node = gl
        THEN [popped EXCEPT !.found = TRUE]
        ELSE IF valid_actions_raises(g, current_node)
        THEN [popped EXCEPT !.err = "IndexError"]
        ELSE ExpandActions(popped, valid_actions(g, current_node),
                           current_node, current_cost, gl)

\* the while loop ends on an empty queue, on break, or on an exception
AStarLoopDone(s) == s.queue = <<>> \/ s.found \/ s.err # "none"

\* lines 122-128: the cells appended to path after goal, walking branch
RECURSIVE Retrace(_, _, _)
Retrace(br, n, st) ==
    IF br[n].parent # st
    THEN <<br[n].parent>> \o Retrace(br, br[n].parent, st)
    ELSE <<br[n].parent>>

Reverse(s) == [i \in 1 .. Len(s) |-> s[Len(s) + 1 - i]]

\* mutant of AStarResult: path_cost counts the cells of the path, not the
\* cost recorded for goal
AStarResult_CostCountsCells(s, st, gl) ==
    IF s.err # "none" THEN [err |-> s.err, path |-> <<>>, path_cost |-> 0]
    ELSE IF ~s.found THEN [err |-> "none", path |-> <<>>, path_cost |-> 0]
    ELSE IF gl \notin DOMAIN s.branch
    THEN [err |-> "KeyError", path |-> <<>>, path_cost |-> 0]
    ELSE [err |-> "none",
          path |-> Reverse(<<gl>> \o Retrace(s.branch, gl, st)),
          path_cost |-> Len(<<gl>> \o Retrace(s.branch, gl, st))]

\* lines 120-133: the value a_star returns, or the exception it ends with
AStarResult(s, st, gl) ==
    IF s.err # "none" THEN [err |-> s.err, path |-> <<>>, path_cost |-> 0]
    ELSE IF ~s.found THEN [err |-> "none", path |-> <<>>, path_cost |-> 0]
    ELSE IF gl \notin DOMAIN s.branch
    THEN [err |-> "KeyError", path |-> <<>>, path_cost |-> 0]
    ELSE [err |-> "none",
          path |-> Reverse(<<gl>> \o Retrace(s.branch, gl, st)),
          path_cost |-> s.branch[gl].cost]

RECURSIVE AStarRun(_, _, _, _)
AStarRun(s, g, st, gl) ==
    IF AStarLoopDone(s) THEN s ELSE AStarRun(AStarIter(s, g, st, gl), g, st, gl)

\* a_star(grid, heuristic, start, goal) as a function of its arguments
a_star(g, st, gl) == AStarResult(AStarRun(AStarInit(st), g, st, gl), st, gl)

(***************************************************************************)
(* collinearity_check and prune_path.  The loop state is [pruned_path, i]  *)
(* with the 0-based i of the code; Python's pruned_path[i] is the TLA+      *)
(* element pruned_path[i + 1].                                             *)
(***************************************************************************)
\* np.linalg.det of the rows point(p1), point(p2), point(p3) = [x, y, 1]
Det3(p1, p2, p3) ==
    p1[1] * (p2[2] - p3[2]) - p1[2] * (p2[1] - p3[1]) + (p2[1] * p3[2] - p3[1] * p2[2])

\* np.abs(det) < epsilon with epsilon = 1e-6
collinearity_check(p1, p2, p3) == 1000000 * Abs(Det3(p1, p2, p3)) < 1

\* list.remove(v): the first element equal to v is removed
ListRemove(s, v) ==
    LET k == CHOOSE j \in 1 .. Len(s) : s[j] = v /\ \A h \in 1 .. j - 1 : s[h] # v
    IN  SeqRemoveAt(s, k)

\* line 155
PruneLoopDone(s) == ~(s.i < Len(s.pruned_path) - 2)

\* mutant of PruneIter: i moves on after a removal too, so the triple that
\* begins at the same position is not examined again
PruneIter_AlwaysAdvance(s) ==
    LET p1 == s.pruned_path[s.i + 1]
        p2 == s.pruned_path[s.i + 2]
        p3 == s.pruned_path[s.i + 3]
    IN  IF collinearity_check(p1, p2, p3)
        THEN [s EXCEPT !.pruned_path = ListRemove(@, s.pruned_path[s.i + 2]), !.i = @ + 1]
        ELSE [s EXCEPT !.i = @ + 1]

\* lines 156-163: one iteration of the while loop
PruneIter(s) ==
    LET p1 == s.pruned_path[s.i + 1]
        p2 == s.pruned_path[s.i + 2]
        p3 == s.pruned_path[s.i + 3]
    IN  IF collinearity_check(p1, p2, p3)
        THEN [s EXCEPT !.pruned_path = ListRemove(@, s.pruned_path[s.i + 2])]
        ELSE [s EXCEPT !.i = @ + 1]

RECURSIVE PruneRun(_)
PruneRun(s) == IF PruneLoopDone(s) THEN s ELSE PruneRun(PruneIter(s))

\* prune_path(path) for a path that is not None
prune_path(pth) == PruneRun([pruned_path |-> pth, i |-> 0]).pruned_path

(***************************************************************************)
(* MotionPlanning.  The object's fields are the record [flight_state,      *)
(* waypoints, target_position, in_mission, commands, raised, plan]:        *)
(* commands is the list of the requests made of the vehicle, in order;     *)
(* raised is the exception the running callback ended with ("none" if it   *)
(* returned); plan records what the last plan_path got from a_star.        *)
(* target_position and the waypoints are in whole units, the telemetry     *)
(* (local_position, local_velocity, heights) in half units.                *)
(***************************************************************************)
TARGET_ALTITUDE == 5

SAFETY_DISTANCE == 5

\* ~b for a Python bool b: the bitwise inversion of the integer 1 or 0
PyInvert(b) == IF b THEN -2 ELSE -1

RECURSIVE BitOr(_, _)
BitOr(a, b) ==
    IF a = 0 THEN b
    ELSE IF b = 0 THEN a
    ELSE 2 * BitOr(a \div 2, b \div 2) + (IF a % 2 = 1 \/ b % 2 = 1 THEN 1 ELSE 0)

\* a & b for two negative Python integers: ~(~a | ~b)
PyAndNegative(a, b) == -BitOr(-a - 1, -b - 1) - 1

\* the truth value of an integer in an if
PyTruthy(n) == n # 0

\* line 71: ~self.armed & ~self.guided, with armed and guided Python bools
DisarmedAndUnguided(a, g) == PyTruthy(PyAndNegative(PyInvert(a), PyInvert(g)))

\* lines 74-78
arming_transition(s) ==
    [s EXCEPT !.flight_state = "ARMING",
              !.commands = @ \o << <<"arm">>, <<"take_control">> >>]

\* lines 80-83
takeoff_transition(s) ==
    [s EXCEPT !.flight_state = "TAKEOFF",
              !.commands = Append(@, <<"takeoff", s.target_position[3]>>)]

\* lines 85-90: pop(0) raises IndexError on an empty list, after the state
\* has been set
waypoint_transition(s) ==
    IF s.waypoints = <<>>
    THEN [s EXCEPT !.flight_state = "WAYPOINT", !.raised = "IndexError"]
    ELSE LET tp == Head(s.waypoints)
         IN  [s EXCEPT !.flight_state = "WAYPOINT",
                       !.target_position = tp,
                       !.waypoints = Tail(@),
                       !.commands = Append(@, <<"cmd_position", tp[1], tp[2], tp[3], tp[4]>>)]

\* lines 92-95
landing_transition(s) ==
    [s EXCEPT !.flight_state = "LANDING", !.commands = Append(@, <<"land">>)]

\* lines 97-101
disarming_transition(s) ==
    [s EXCEPT !.flight_state = "DISARMING",
              !.commands = @ \o << <<"disarm">>, <<"release_control">> >>]

\* mutant of manual_transition: the flight state is left at DISARMING
manual_transition_StateKept(s) ==
    [s EXCEPT !.commands = Append(@, <<"stop">>),
              !.in_mission = FALSE]

\* lines 103-107
manual_transition(s) ==
    [s EXCEPT !.flight_state = "MANUAL",
              !.commands = Append(@, <<"stop">>),
              !.in_mission = FALSE]

\* lines 162 and 170: the grid cell of a local position (half units)
GridCell(local, north_offset, east_offset) ==
    <<PyIntHalf(local[1]) - north_offset, PyIntHalf(local[2]) - east_offset>>

\* lines 151-181: the grid, the start and goal cells, the search, the pruning
\* and the waypoints, for the obstacle table tbl and the local positions
\* global_to_local returned for the vehicle and for the goal
PlanSearch(tbl, lpos, lgoal) ==
    LET cgr == create_grid(tbl, 2 * TARGET_ALTITUDE, 2 * SAFETY_DISTANCE)
        north_offset == cgr.north_offset
        east_offset == cgr.east_offset
        grid_start == GridCell(lpos, north_offset, east_offset)
        grid_goal == GridCell(lgoal, north_offset, east_offset)
        r == a_star(cgr.grid, grid_start, grid_goal)
        pp == prune_path(r.path)
    IN  [err |-> r.err,
         grid |-> cgr.grid,
         grid_start |-> grid_start,
         grid_goal |-> grid_goal,
         path |-> r.path,
         waypoints |-> [k \in 1 .. Len(pp) |->
                          <<pp[k][1] + north_offset, pp[k][2] + east_offset,
                            TARGET_ALTITUDE, 0>>]]

\* lines 114-187: an exception of a_star leaves plan_path after lines 115
\* and 120 and the request of line 132
plan_path(s, tbl, lpos, lgoal) ==
    LET r == PlanSearch(tbl, lpos, lgoal)
        s1 == [s EXCEPT !.flight_state = "PLANNING",
                        !.target_position[3] = TARGET_ALTITUDE,
                        !.commands = Append(@, <<"set_home_position">>)]
    IN  IF r.err # "none"
        THEN [s1 EXCEPT !.raised = r.err,
                        !.plan = [status |-> "raised", waypoints |-> <<>>]]
        ELSE [s1 EXCEPT !.waypoints = r.waypoints,
                        !.commands = Append(@, <<"send_waypoints">>),
                        !.plan = [status |-> IF r.path = <<>> THEN "empty" ELSE "found",
                                  waypoints |-> r.waypoints]]

\* line 45
AboveTakeoffAltitude(s, pos) == 100 * (-pos[3]) > 95 * (2 * s.target_position[3])

\* line 48: np.linalg.norm(target_position[0:2] - local_position[0:2]) < 1.0
NearTarget(s, pos) ==
    (2 * s.target_position[1] - pos[1]) * (2 * s.target_position[1] - pos[1])
    + (2 * s.target_position[2] - pos[2]) * (2 * s.target_position[2] - pos[2]) < 4

\* line 52: np.linalg.norm(local_velocity[0:2]) < 1.0
SlowHorizontally(vel) == vel[1] * vel[1] + vel[2] * vel[2] < 4

\* mutant of local_position_callback: the landing is not gated on the speed
local_position_callback_NoSpeedGate(s, pos, vel) ==
    IF s.flight_state = "TAKEOFF"
    THEN IF AboveTakeoffAltitude(s, pos) THEN waypoint_transition(s) ELSE s
    ELSE IF s.flight_state = "WAYPOINT"
    THEN IF NearTarget(s, pos)
         THEN IF Len(s.waypoints) > 0
              THEN waypoint_transition(s)
              ELSE landing_transition(s)
         ELSE s
    ELSE s

\* lines 43-53, with local_position = pos and local_velocity = vel
local_position_callback(s, pos, vel) ==
    IF s.flight_state = "TAKEOFF"
    THEN IF AboveTakeoffAltitude(s, pos) THEN waypoint_transition(s) ELSE s
    ELSE IF s.flight_state = "WAYPOINT"
    THEN IF NearTarget(s, pos)
         THEN IF Len(s.waypoints) > 0
              THEN waypoint_transition(s)
              ELSE IF SlowHorizontally(vel) THEN landing_transition(s) ELSE s
         ELSE s
    ELSE s

\* lines 55-59, with height = global_position[2] - global_home[2]
velocity_callback(s, pos, height) ==
    IF s.flight_state = "LANDING"
    THEN IF 10 * height < 2
         THEN IF 100 * Abs(pos[3]) < 2 THEN disarming_transition(s) ELSE s
         ELSE s
    ELSE s

\* mutant of state_callback: the takeoff follows the planning in the same
\* callback
state_callback_TakeoffAtOnce(s, a, g, tbl, lpos, lgoal) ==
    IF s.in_mission
    THEN IF s.flight_state = "MANUAL" THEN arming_transition(s)
         ELSE IF s.flight_state = "ARMING"
         THEN IF a THEN takeoff_transition(plan_path(s, tbl, lpos, lgoal)) ELSE s
         ELSE IF s.flight_state = "PLANNING" THEN takeoff_transition(s)
         ELSE IF s.flight_state = "DISARMING"
         THEN IF DisarmedAndUnguided(a, g) THEN manual_transition(s) ELSE s
         ELSE s
    ELSE s

\* lines 61-72, with armed = a and guided = g; tbl, lpos and lgoal
\* are what plan_path reads from the obstacle file and the telemetry
state_callback(s, a, g, tbl, lpos, lgoal) ==
    IF s.in_mission
    THEN IF s.flight_state = "MANUAL" THEN arming_transition(s)
         ELSE IF s.flight_state = "ARMING"
         THEN IF a THEN plan_path(s, tbl, lpos, lgoal) ELSE s
         ELSE IF s.flight_state = "PLANNING" THEN takeoff_transition(s)
         ELSE IF s.flight_state = "DISARMING"
         THEN IF DisarmedAndUnguided(a, g) THEN manual_transition(s) ELSE s
         ELSE s
    ELSE s

(***************************************************************************)
(* The grids a_star is run on: every grid of at most MaxCells cells and    *)
(* one 5 x 6 maze, with every start and goal; and the unoccupied 10 x 10   *)
(* grid from corner to corner.                                             *)
(***************************************************************************)
Shapes == {sh \in (1 .. MaxCells) \X (1 .. MaxCells) : sh[1] * sh[2] <= MaxCells}

SmallGrids ==
    UNION {{[rows |-> sh[1], cols |-> sh[2], occ |-> o] :
              o \in SUBSET ((0 .. sh[1] - 1) \X (0 .. sh[2] - 1))} : sh \in Shapes}

\*   . # . . . .
\*   # . . . # .
\*   . # # . . .
\*   . . . # . #
\*   . . . . . .
Maze ==
    [rows |-> 5, cols |-> 6,
     occ |-> {<<0, 1>>, <<1, 0>>, <<1, 4>>, <<2, 1>>, <<2, 2>>, <<3, 3>>, <<3, 5>>}]

Grids == SmallGrids \cup {Maze}

OpenGrid(n, m) == [rows |-> n, cols |-> m, occ |-> {}]

\* a_star is called on a grid of Grids with any unoccupied start and any goal
GridsInput ==
    /\ grid \in Grids
    /\ start \in Cells(grid) \ grid.occ
    /\ goal \in Cells(grid)

\* a_star is called on the unoccupied 10 x 10 grid, from corner to corner
OpenGridInput ==
    /\ grid = OpenGrid(10, 10)
    /\ start = <<0, 0>>
    /\ goal = <<9, 9>>

(***************************************************************************)
(* a_star as a process: one action per iteration of the while loop, one    *)
(* for the loop's exit and the retrace.                                    *)
(***************************************************************************)
AStarState == [queue |-> queue, visited |-> visited, branch |-> branch,
               found |-> found, err |-> a_err]

SetAStarState(s) ==
    /\ queue' = s.queue
    /\ visited' = s.visited
    /\ branch' = s.branch
    /\ found' = s.found
    /\ a_err' = s.err

\* the variables of a_star while another function is the one running
IdleAStar ==
    /\ grid = [rows |-> 0, cols |-> 0, occ |-> {}]
    /\ start = <<0, 0>>
    /\ goal = <<0, 0>>
    /\ queue = <<>>
    /\ visited = {}
    /\ branch = <<>>
    /\ found = FALSE
    /\ a_err = "none"
    /\ path = <<>>
    /\ path_cost = 0
    /\ a_pc = "idle"

\* the variables of create_grid while another function is the one running
IdleCreateGrid ==
    /\ data = <<>>
    /\ drone_altitude = 0
    /\ safety_distance = 0
    /\ cg = [north_min |-> 0, east_min |-> 0, north_size |-> 0, east_size |-> 0,
             grid |-> [rows |-> 0, cols |-> 0, occ |-> {}]]
    /\ cg_i = 0
    /\ cg_pc = "idle"

\* the variables of prune_path while another function is the one running
IdlePrune ==
    /\ p_path = <<>>
    /\ pruned_path = <<>>
    /\ p_i = 0
    /\ p_pc = "idle"

\* the fields of MotionPlanning while no vehicle is connected
IdleFsm ==
    /\ flight_state = "MANUAL"
    /\ waypoints = <<>>
    /\ target_position = <<0, 0, 0>>
    /\ in_mission = TRUE
    /\ commands = <<>>
    /\ raised = "none"
    /\ plan = [status |-> "none", waypoints |-> <<>>]
    /\ armed = FALSE
    /\ guided = FALSE
    /\ local_position = <<0, 0, 0>>
    /\ local_velocity = <<0, 0, 0>>
    /\ event = [name |-> "none", from |-> "MANUAL"]

\* the local positions while plan_path is not the function running
IdlePlan ==
    /\ local_pos = <<0, 0>>
    /\ local_goal = <<0, 0>>

InitAStar ==
    /\ IdlePlan
    /\ IdleCreateGrid
    /\ IdlePrune
    /\ IdleFsm
    /\ GridsInput \/ OpenGridInput
    /\ queue = AStarInit(start).queue
    /\ visited = AStarInit(start).visited
    /\ branch = AStarInit(start).branch
    /\ found = FALSE
    /\ a_err = "none"
    /\ path = <<>>
    /\ path_cost = 0
    /\ a_pc = "loop"

\* lines 96-118: one iteration of the while loop
AStarStep ==
    /\ a_pc = "loop"
    /\ ~AStarLoopDone(AStarState)
    /\ SetAStarState(AStarIter(AStarState, grid, start, goal))
    /\ UNCHANGED <<grid, start, goal, path, path_cost, a_pc>>
    /\ UNCHANGED <<gvars, pvars, fvars, lvars>>

\* lines 120-133: the loop has ended; retrace and return
AStarReturn ==
    /\ a_pc = "loop"
    /\ AStarLoopDone(AStarState)
    /\ LET r == AStarResult(AStarState, start, goal)
       IN  /\ path' = r.path
           /\ path_cost' = r.path_cost
           /\ a_err' = r.err
           /\ a_pc' = IF r.err = "none" THEN "done" ELSE "raised"
    /\ UNCHANGED <<grid, start, goal, queue, visited, branch, found>>
    /\ UNCHANGED <<gvars, pvars, fvars, lvars>>

NextAStar == AStarStep \/ AStarReturn

SpecAStar == InitAStar /\ [][NextAStar]_vars

(***************************************************************************)
(* create_grid as a process: the set-up, one action per obstacle of the    *)
(* for loop, and the return.                                               *)
(***************************************************************************)
Obstacles ==
    [north : 0 .. MaxCentreH, east : 0 .. MaxCentreH, alt : 0 .. MaxObstacleAltH,
     d_north : 1 .. MaxExtentH, d_east : 1 .. MaxExtentH, d_alt : 1 .. MaxExtentH]

ObstacleTables == UNION {[1 .. n -> Obstacles] : n \in 1 .. MaxObstacles}

InitGrid ==
    /\ IdlePlan
    /\ IdleAStar
    /\ IdlePrune
    /\ IdleFsm
    /\ data \in ObstacleTables
    /\ drone_altitude \in 0 .. MaxDroneAltH
    /\ safety_distance \in 0 .. MaxSafetyH
    /\ cg = [north_min |-> 0, east_min |-> 0, north_size |-> 0, east_size |-> 0,
             grid |-> [rows |-> 0, cols |-> 0, occ |-> {}]]
    /\ cg_i = 0
    /\ cg_pc = "begin"

\* lines 13-23
GridBegin ==
    /\ cg_pc = "begin"
    /\ cg' = CreateGridBegin(data)
    /\ cg_i' = 1
    /\ cg_pc' = "loop"
    /\ UNCHANGED <<data, drone_altitude, safety_distance>>
    /\ UNCHANGED <<avars, pvars, fvars, lvars>>

\* lines 26-35: one iteration of the for loop
GridObstacle ==
    /\ cg_pc = "loop"
    /\ cg_i <= Len(data)
    /\ cg' = CreateGridObstacle(cg, data[cg_i], drone_altitude, safety_distance)
    /\ cg_i' = cg_i + 1
    /\ UNCHANGED <<data, drone_altitude, safety_distance, cg_pc>>
    /\ UNCHANGED <<avars, pvars, fvars, lvars>>

\* line 37
GridReturn ==
    /\ cg_pc = "loop"
    /\ cg_i > Len(data)
    /\ cg_pc' = "done"
    /\ UNCHANGED <<data, drone_altitude, safety_distance, cg, cg_i>>
    /\ UNCHANGED <<avars, pvars, fvars, lvars>>

NextGrid == GridBegin \/ GridObstacle \/ GridReturn

SpecGrid == InitGrid /\ [][NextGrid]_vars

(***************************************************************************)
(* prune_path as a process: the copy of the path, one action per iteration *)
(* of the while loop, and the return.                                      *)
(***************************************************************************)
PruneCells == (0 .. MaxPruneCoord) \X (0 .. MaxPruneCoord)

PrunePaths == UNION {[1 .. n -> PruneCells] : n \in 0 .. MaxPathLen}

\* the path of n cells that starts at c and repeats the unit move d
AxisLine(c, d, n) == [k \in 1 .. n |-> <<c[1] + (k - 1) * d[1], c[2] + (k - 1) * d[2]>>]

StraightPaths ==
    {AxisLine(c, Action[a].delta, n) :
        c \in PruneCells, a \in 1 .. Len(Action), n \in 3 .. MaxLineLen}

InitPrune ==
    /\ IdlePlan
    /\ IdleAStar
    /\ IdleCreateGrid
    /\ IdleFsm
    /\ p_path \in PrunePaths \cup StraightPaths
    /\ pruned_path = <<>>
    /\ p_i = 0
    /\ p_pc = "begin"

\* lines 151-154
PruneBegin ==
    /\ p_pc = "begin"
    /\ pruned_path' = p_path
    /\ p_i' = 0
    /\ p_pc' = "loop"
    /\ UNCHANGED p_path
    /\ UNCHANGED <<avars, gvars, fvars, lvars>>

\* lines 155-163: one iteration of the while loop
PruneStep ==
    /\ p_pc = "loop"
    /\ ~PruneLoopDone([pruned_path |-> pruned_path, i |-> p_i])
    /\ LET s == PruneIter([pruned_path |-> pruned_path, i |-> p_i])
       IN  pruned_path' = s.pruned_path /\ p_i' = s.i
    /\ UNCHANGED <<p_path, p_pc>>
    /\ UNCHANGED <<avars, gvars, fvars, lvars>>

\* line 165
PruneReturn ==
    /\ p_pc = "loop"
    /\ PruneLoopDone([pruned_path |-> pruned_path, i |-> p_i])
    /\ p_pc' = "done"
    /\ UNCHANGED <<p_path, pruned_path, p_i>>
    /\ UNCHANGED <<avars, gvars, fvars, lvars>>

NextPrune == PruneBegin \/ PruneStep \/ PruneReturn

SpecPrune == InitPrune /\ [][NextPrune]_vars

(***************************************************************************)
(* The flight state machine as a process: one action per telemetry         *)
(* callback.  The vehicle library stores the message's values and then     *)
(* calls the callback; event records which callback ran last and the       *)
(* flight state it found.                                                  *)
(***************************************************************************)
\* colliders.csv: a flat slab of 2 x 7 cells, origin (-1, -2), and a tall
\* obstacle whose inflated, clipped extent is the column of index 1
PlanTable ==
    << [north |-> 0, east |-> 3, alt |-> 0, d_north |-> 2, d_east |-> 7, d_alt |-> 0],
       [north |-> 0, east |-> 9, alt |-> 2, d_north |-> 2, d_east |-> 1, d_alt |-> 2] >>

PlanTables == {PlanTable}

\* local north and east (half units) global_to_local may return in plan_path
PlanLocalPositions == {<<-2, -4>>, <<0, 0>>, <<-1, 1>>, <<-2, 6>>, <<0, 8>>}

\* local_position messages: north, east, down in half units
LocalPositions == {-2, -1, 0} \X {-4, -2, 0, 2, 4, 6, 8} \X {0, -10}

\* local_velocity messages, half units
LocalVelocities == {<<0, 0, 0>>, <<2, 0, 0>>}

\* global_position[2] - global_home[2], half units
Heights == {0, 1}

FsmState ==
    [flight_state |-> flight_state, waypoints |-> waypoints,
     target_position |-> target_position, in_mission |-> in_mission,
     commands |-> commands, raised |-> "none", plan |-> plan]

SetFsmState(s) ==
    /\ flight_state' = s.flight_state
    /\ waypoints' = s.waypoints
    /\ target_position' = s.target_position
    /\ in_mission' = s.in_mission
    /\ commands' = s.commands
    /\ raised' = s.raised
    /\ plan' = s.plan

\* lines 27-41, and the fields of the Drone base class before any message
InitFsm ==
    /\ IdlePlan
    /\ IdleAStar
    /\ IdleCreateGrid
    /\ IdlePrune
    /\ IdleFsm

\* the LOCAL_POSITION message that reports pos
LocalPositionMessage(pos) ==
    /\ local_position' = pos
    /\ SetFsmState(local_position_callback(FsmState, pos, local_velocity))
    /\ event' = [name |-> "local_position", from |-> flight_state]
    /\ UNCHANGED <<armed, guided, local_velocity>>
    /\ UNCHANGED <<avars, gvars, pvars, lvars>>

\* a LOCAL_POSITION message
LocalPositionCallback == \E pos \in LocalPositions : LocalPositionMessage(pos)

\* a LOCAL_VELOCITY message
VelocityCallback ==
    \E vel \in LocalVelocities, height \in Heights :
        /\ local_velocity' = vel
        /\ SetFsmState(velocity_callback(FsmState, local_position, height))
        /\ event' = [name |-> "local_velocity", from |-> flight_state]
        /\ UNCHANGED <<armed, guided, local_position>>
        /\ UNCHANGED <<avars, gvars, pvars, lvars>>

\* what plan_path reads when a STATE message with armed = a arrives: the
\* obstacle table and the two local positions if line 67 is reached
\* (nothing is read otherwise, and one value stands for it)
PlanInputs(a) ==
    IF in_mission /\ flight_state = "ARMING" /\ a
    THEN PlanTables \X PlanLocalPositions \X PlanLocalPositions
    ELSE {<<PlanTable, <<0, 0>>, <<0, 0>> >>}

\* the STATE message that reports armed = a and guided = g, with inp what
\* plan_path reads if it is called
StateMessage(a, g, inp) ==
    /\ armed' = a
    /\ guided' = g
    /\ SetFsmState(state_callback(FsmState, a, g, inp[1], inp[2], inp[3]))
    /\ event' = [name |-> "state", from |-> flight_state]
    /\ UNCHANGED <<local_position, local_velocity>>
    /\ UNCHANGED <<avars, gvars, pvars, lvars>>

\* a STATE message
StateCallback ==
    \E a \in BOOLEAN, g \in BOOLEAN : \E inp \in PlanInputs(a) : StateMessage(a, g, inp)

NextFsm == LocalPositionCallback \/ VelocityCallback \/ StateCallback

SpecFsm == InitFsm /\ [][NextFsm]_vars

(***************************************************************************)
(* Lines 142-178 of plan_path as a process: create_grid, the start and     *)
(* goal cells, a_star and prune_path, each run step by step by the actions *)
(* above.                                                                  *)
(***************************************************************************)
\* the local positions plan_path may get (half units): the five above, one
\* over the occupied cell (1, 1), one north of the grid, one far east of it
PlanPositions == PlanLocalPositions \cup {<<0, -2>>, <<-4, 0>>, <<0, 40>>}

InitPlan ==
    /\ IdleAStar
    /\ IdlePrune
    /\ IdleFsm
    /\ local_pos \in PlanPositions
    /\ local_goal \in PlanPositions
    /\ data \in PlanTables
    /\ drone_altitude = 2 * TARGET_ALTITUDE
    /\ safety_distance = 2 * SAFETY_DISTANCE
    /\ cg = [north_min |-> 0, east_min |-> 0, north_size |-> 0, east_size |-> 0,
             grid |-> [rows |-> 0, cols |-> 0, occ |-> {}]]
    /\ cg_i = 0
    /\ cg_pc = "begin"

\* lines 162-175: the start and goal cells, and the call of a_star up to its
\* while loop
PlanCells ==
    /\ cg_pc = "done"
    /\ a_pc = "idle"
    /\ LET r == CreateGridResult(cg)
           grid_start == GridCell(local_pos, r.north_offset, r.east_offset)
           grid_goal == GridCell(local_goal, r.north_offset, r.east_offset)
       IN  /\ grid' = r.grid
           /\ start' = grid_start
           /\ goal' = grid_goal
           /\ SetAStarState(AStarInit(grid_start))
    /\ a_pc' = "loop"
    /\ UNCHANGED <<path, path_cost>>
    /\ UNCHANGED <<gvars, pvars, fvars, lvars>>

\* line 178: the call of prune_path on the path a_star returned
PlanPrune ==
    /\ a_pc = "done"
    /\ p_pc = "idle"
    /\ p_path' = path
    /\ p_pc' = "begin"
    /\ UNCHANGED <<pruned_path, p_i>>
    /\ UNCHANGED <<avars, gvars, fvars, lvars>>

NextPlan ==
    \/ GridBegin \/ GridObstacle \/ GridReturn
    \/ PlanCells \/ AStarStep \/ AStarReturn
    \/ PlanPrune \/ PruneBegin \/ PruneStep \/ PruneReturn

SpecPlan == InitPlan /\ [][NextPlan]_vars

(***************************************************************************)
(* The state machine on one flight corridor, with telemetry that keeps     *)
(* arriving.  The vehicle and the goal are over the cells (1, 2), (1, 6)   *)
(* or (0, 0) of the grid of PlanTable, and the positions reported are the  *)
(* two ends of the corridor, in the air or on the ground.  The messages    *)
(* in time meet each guard: the vehicle reports armed while the machine    *)
(* waits in ARMING (ArmedReport); outside ARMING a message that moves the  *)
(* machine on or makes it issue a command (Advance) arrives if one is      *)
(* possible again and again; while the machine waits in WAYPOINT or in     *)
(* LANDING, a speed below 1.0 (Calm) resp. a position on the ground        *)
(* (Grounded) is reported.                                                 *)
(***************************************************************************)
CorridorPlanPositions == {<<0, 0>>, <<0, 8>>, <<-2, -4>>}

CorridorPositions == {<<0, 0>>, <<0, 8>>} \X {0, -10}

CorridorPlanInputs(a) ==
    IF in_mission /\ flight_state = "ARMING" /\ a
    THEN PlanTables \X CorridorPlanPositions \X CorridorPlanPositions
    ELSE {<<PlanTable, <<0, 0>>, <<0, 0>> >>}

CorridorPosition ==
    \E pos \in CorridorPositions : LocalPositionMessage(<<pos[1][1], pos[1][2], pos[2]>>)

CorridorState ==
    \E a \in BOOLEAN, g \in BOOLEAN :
        \E inp \in CorridorPlanInputs(a) : StateMessage(a, g, inp)

NextFsmLive == CorridorPosition \/ VelocityCallback \/ CorridorState

\* a STATE message with armed = True reaches the machine in ARMING
ArmedReport == flight_state = "ARMING" /\ event'.name = "state" /\ armed'

\* outside ARMING, a message moves the machine on or makes it issue a command
Advance ==
    /\ flight_state # "ARMING"
    /\ NextFsmLive
    /\ flight_state' # flight_state \/ commands' # commands

\* the machine waits in WAYPOINT at a speed of 1.0 or more
Speeding == flight_state = "WAYPOINT" /\ ~SlowHorizontally(local_velocity)

Calm == Speeding /\ VelocityCallback /\ SlowHorizontally(local_velocity')

\* the machine waits in LANDING off the ground
Descending == flight_state = "LANDING" /\ local_position[3] # 0

Grounded == Descending /\ CorridorPosition /\ local_position'[3] = 0

SpecFsmLive ==
    /\ InitFsm
    /\ [][NextFsmLive]_vars
    /\ ([]<>(flight_state # "ARMING")) \/ ([]<><<ArmedReport>>_vars)
    /\ SF_vars(Advance)
    /\ WF_vars(Calm)
    /\ WF_vars(Grounded)

(***************************************************************************)
(* Reference notions for the claims about a_star: 4-connected reachability *)
(* through unoccupied cells and the breadth-first shortest-path length.    *)
(***************************************************************************)
FreeCells(g) == Cells(g) \ g.occ

Adjacent(a, b) == Abs(a[1] - b[1]) + Abs(a[2] - b[2]) = 1

IsUnitMove(a, b) ==
    \E k \in 1 .. Len(Action) : <<b[1] - a[1], b[2] - a[2]>> = Action[k].delta

RECURSIVE BfsDist(_, _, _, _, _)
BfsDist(g, frontier, seen, target, d) ==
    IF target \in frontier THEN d
    ELSE LET nxt == {c \in FreeCells(g) \ seen : \E f \in frontier : Adjacent(f, c)}
         IN  IF nxt = {} THEN -1 ELSE BfsDist(g, nxt, seen \cup nxt, target, d + 1)

\* least number of unit steps from s to t through unoccupied cells, -1 if none
ShortestSteps(g, s, t) == BfsDist(g, {s}, {s}, t, 0)

Connected(g, s, t) == ShortestSteps(g, s, t) >= 0

\* C1: a non-empty path returned by a_star (start in bounds and unoccupied,
\* goal in bounds, start # goal) begins at start, ends at goal, and every
\* cell on it is inside the grid and unoccupied.
C1_PathCollisionFree ==
    (a_pc = "done" /\ start # goal /\ path # <<>>) =>
        /\ path[1] = start
        /\ path[Len(path)] = goal
        /\ \A k \in 1 .. Len(path) : path[k] \in Cells(grid) /\ path[k] \notin grid.occ

\* a path of several cells was returned on a grid that has obstacles
C1_Witness ==
    /\ a_pc = "done"
    /\ start # goal
    /\ Len(path) >= 4
    /\ grid.occ # {}
    /\ \E k \in 1 .. Len(path) - 2 :
          path[k][1] # path[k + 2][1] /\ path[k][2] # path[k + 2][2]

\* C2: for a reachable goal (start # goal, both unoccupied) the returned path
\* has as many steps (cells minus one) as the returned path_cost, and every
\* two consecutive cells differ by one of the four unit moves.
C2_StepsEqualCost ==
    (a_pc # "loop" /\ start # goal /\ Connected(grid, start, goal)) =>
        /\ a_pc = "done"
        /\ Len(path) - 1 = path_cost
        /\ \A k \in 1 .. Len(path) - 1 : IsUnitMove(path[k], path[k + 1])

\* a reachable goal at three steps or more was found
C2_Witness ==
    /\ a_pc = "done"
    /\ Connected(grid, start, goal)
    /\ path_cost >= 3
    /\ Len(path) = path_cost + 1
    /\ path_cost > Abs(start[1] - goal[1]) + Abs(start[2] - goal[2])

\* C3: when no sequence of 4-connected unoccupied cells joins start to goal
\* (goal occupied or not, goal # start), a_star never finds the goal, and it
\* ends with the frontier exhausted and the empty path.
C3_UnreachableFails ==
    (start # goal /\ ~Connected(grid, start, goal)) =>
        /\ ~found
        /\ path = <<>>
        /\ a_pc # "loop" => (a_pc = "done" /\ queue = <<>> /\ path_cost = 0)

\* an unoccupied goal cut off from start: the search expanded several cells,
\* exhausted the frontier and returned
C3_Witness ==
    /\ a_pc = "done"
    /\ start # goal
    /\ goal \notin grid.occ
    /\ ~Connected(grid, start, goal)
    /\ grid.rows >= 2
    /\ Cardinality(DOMAIN branch) >= 3
    /\ queue = <<>>

\* C4: for a reachable goal the cost a_star returns is the breadth-first
\* shortest-path length (the least number of unit steps through unoccupied
\* cells).
C4_CostIsShortest ==
    (a_pc = "done" /\ start # goal /\ Connected(grid, start, goal)) =>
        path_cost = ShortestSteps(grid, start, goal)

\* C12: on a grid with no occupied cell, searched from the corner (0, 0) to
\* the opposite corner (rows - 1, cols - 1), a_star returns a path of
\* rows + cols - 1 cells with cost rows + cols - 2; 19 cells and cost 18 on
\* the 10 x 10 grid.
C12_OpenGridManhattan ==
    (/\ a_pc # "loop"
     /\ grid.occ = {}
     /\ start = <<0, 0>>
     /\ goal = <<grid.rows - 1, grid.cols - 1>>
     /\ start # goal) =>
        /\ a_pc = "done"
        /\ Len(path) = grid.rows + grid.cols - 1
        /\ path_cost = grid.rows + grid.cols - 2

\* the 10 x 10 grid has been searched from corner to corner
C12_Witness ==
    /\ a_pc = "done"
    /\ grid = OpenGrid(10, 10)
    /\ start = <<0, 0>>
    /\ goal = <<9, 9>>
    /\ Len(path) = 19
    /\ path_cost = 18

\* the queue entry that was put for the cell c when branch[c] was recorded
EntryOf(c) == [g |-> branch[c].cost, d2 |-> heuristic2(c, goal), node |-> c]

ActionIndex(name) == CHOOSE k \in 1 .. Len(Action) : Action[k].name = name

\* the step took the entry at position i out of the queue
Dequeued(i) ==
    /\ i \in 1 .. Len(queue)
    /\ Len(queue') >= Len(queue) - 1
    /\ SubSeq(queue', 1, Len(queue) - 1) = SeqRemoveAt(queue, i)

\* C14 as stated: among the frontier entries of equal priority g + h the one
\* enqueued first is dequeued first: no entry enqueued before the dequeued
\* one has its priority.
C14_TiesFirstEnqueued ==
    [][queue' # queue =>
          \E i \in 1 .. Len(queue) :
              /\ Dequeued(i)
              /\ \A j \in 1 .. Len(queue) : ~CostLt(queue[j], queue[i])
              /\ \A j \in 1 .. i - 1 : ~CostEq(queue[j], queue[i])]_vars

\* C14 as amended: among the frontier entries of equal priority g + h the
\* one whose cell is least in tuple order (row first, then column) is
\* dequeued first, whenever it was enqueued.
C14_TiesLeastCell ==
    [][queue' # queue =>
          \E i \in 1 .. Len(queue) :
              /\ Dequeued(i)
              /\ \A j \in 1 .. Len(queue) : ~CostLt(queue[j], queue[i])
              /\ \A j \in 1 .. Len(queue) :
                    CostEq(queue[j], queue[i]) => ~NodeLt(queue[j].node, queue[i].node)]_vars

\* a cell p was dequeued and expanded while the entry of a sibling of equal
\* priority, enqueued before it in the same expansion, is still waiting
C14_Witness ==
    /\ a_pc = "loop"
    /\ \E j \in 1 .. Len(queue), p \in DOMAIN branch :
          LET q == queue[j].node
          IN  /\ q \in DOMAIN branch
              /\ q # p
              /\ \A k \in 1 .. Len(queue) : queue[k].node # p
              /\ \E c \in DOMAIN branch : branch[c].parent = p
              /\ CostEq(queue[j], EntryOf(p))
              /\ branch[q].parent = branch[p].parent
              /\ ActionIndex(branch[q].action) < ActionIndex(branch[p].action)
              /\ NodeLt(p, q)

\* C15: during a run of a_star no cell, the start cell included, is enqueued
\* a second time, and no predecessor/cost record is created for a cell that
\* was already reached: none for the start cell, and a record once made is
\* never replaced.
C15_ReachedOnce ==
    [][/\ start \notin DOMAIN branch'
       /\ \A c \in DOMAIN branch : c \in DOMAIN branch' /\ branch'[c] = branch[c]
       /\ queue' # queue =>
             \A k \in Len(queue) .. Len(queue') :
                 queue'[k].node # start /\ queue'[k].node \notin DOMAIN branch]_vars

\* C19: when start equals goal (in bounds, unoccupied) a_star returns
\* normally, without an error in the path reconstruction, the one-cell path
\* [start] and cost 0, which differs from the failure result (empty path).
C19_StartIsGoal ==
    (a_pc # "loop" /\ start = goal) =>
        /\ a_pc = "done"
        /\ a_err = "none"
        /\ path = <<start>>
        /\ path_cost = 0

(***************************************************************************)
(* Claims about create_grid.                                               *)
(***************************************************************************)
\* the cell range [lo, hi] (half units) clipped to [0, size - 1] and cut to
\* whole cell indices holds the index k
ClippedRangeHolds(lo, hi, size, k) ==
    /\ PyIntHalf(Clip(lo, 0, 2 * (size - 1))) <= k
    /\ k <= PyIntHalf(Clip(hi, 0, 2 * (size - 1)))

\* the obstacle ob, inflated by the safety distance, covers cell cl at the
\* drone altitude, as the specification of the grid builder defines it
InflatedObstacleCovers(ob, cl) ==
    /\ ob.alt + ob.d_alt + safety_distance > drone_altitude
    /\ ClippedRangeHolds(ob.north - ob.d_north - safety_distance - 2 * cg.north_min,
                         ob.north + ob.d_north + safety_distance - 2 * cg.north_min,
                         cg.north_size, cl[1])
    /\ ClippedRangeHolds(ob.east - ob.d_east - safety_distance - 2 * cg.east_min,
                         ob.east + ob.d_east + safety_distance - 2 * cg.east_min,
                         cg.east_size, cl[2])

\* C5: a cell of the grid create_grid returns is occupied if and only if
\* some obstacle with alt + d_alt + safety_distance > drone_altitude has its
\* north range [north - d_north - safety, north + d_north + safety] and its
\* east range [east - d_east - safety, east + d_east + safety], taken
\* relative to the grid origin and clipped to the grid, over that cell.
C5_OccupiedIffCovered ==
    cg_pc = "done" =>
        \A cl \in Cells(cg.grid) :
            cl \in cg.grid.occ <=>
                \E k \in 1 .. Len(data) : InflatedObstacleCovers(data[k], cl)

(***************************************************************************)
(* Claims about the flight state machine.                                  *)
(***************************************************************************)
CycleEdges ==
    { <<"MANUAL", "ARMING">>, <<"ARMING", "PLANNING">>, <<"PLANNING", "TAKEOFF">>,
      <<"TAKEOFF", "WAYPOINT">>, <<"WAYPOINT", "WAYPOINT">>, <<"WAYPOINT", "LANDING">>,
      <<"LANDING", "DISARMING">>, <<"DISARMING", "MANUAL">> }

\* C6: every call of a telemetry callback leaves flight_state unchanged or
\* moves it along exactly one edge of the cycle MANUAL, ARMING, PLANNING,
\* TAKEOFF, WAYPOINT (repeated), LANDING, DISARMING, MANUAL.
C6_OneCycleEdgePerEvent ==
    [][flight_state' = flight_state \/ <<flight_state, flight_state'>> \in CycleEdges]_vars

\* the whole cycle has been walked: the mission ended in MANUAL after a
\* landing and a disarming
C6_Witness ==
    /\ flight_state = "MANUAL"
    /\ ~in_mission
    /\ event = [name |-> "state", from |-> "DISARMING"]
    /\ \E k \in 1 .. Len(commands) : commands[k] = <<"land">>

\* C7: when the search of plan_path finds no path, no takeoff is requested
\* afterwards and the machine enters neither TAKEOFF nor WAYPOINT.
C7_FailedPlanNoTakeoff ==
    plan.status = "empty" =>
        /\ flight_state \notin {"TAKEOFF", "WAYPOINT"}
        /\ \A k \in 1 .. Len(commands) : commands[k][1] # "takeoff"

\* C8: a state update received in DISARMING moves the machine to MANUAL only
\* if it reports armed = false and guided = false; with armed or guided true
\* the machine stays in DISARMING.
C8_ManualOnlyWhenDisarmed ==
    [][(flight_state = "DISARMING" /\ flight_state' # "DISARMING") =>
           (~armed' /\ ~guided')]_vars

\* C9: the machine enters LANDING only from WAYPOINT, on a position update
\* within 1.0 of the target, with the waypoint queue empty and the
\* horizontal speed below 1.0.
C9_LandingGate ==
    [][(flight_state' = "LANDING" /\ flight_state # "LANDING") =>
           /\ flight_state = "WAYPOINT"
           /\ event'.name = "local_position"
           /\ NearTarget(FsmState, local_position')
           /\ waypoints = <<>>
           /\ SlowHorizontally(local_velocity)]_vars

\* LANDING has just been entered after the planned waypoints were flown
C9_Witness ==
    /\ flight_state = "LANDING"
    /\ event = [name |-> "local_position", from |-> "WAYPOINT"]
    /\ plan.status = "found"
    /\ \E k \in 1 .. Len(commands) : commands[k][1] = "cmd_position"

(***************************************************************************)
(* Claims about prune_path.                                                *)
(***************************************************************************)
\* s is t with some elements left out, the others in their order
RECURSIVE IsSubsequence(_, _)
IsSubsequence(s, t) ==
    IF s = <<>> THEN TRUE
    ELSE IF t = <<>> THEN FALSE
    ELSE IF Head(s) = Head(t) THEN IsSubsequence(Tail(s), Tail(t))
    ELSE IsSubsequence(s, Tail(t))

\* C10: for a non-empty input path (repeated cells allowed) prune_path
\* returns a non-empty subsequence of the input, in order, that begins with
\* the input's first element and ends with its last; a path of fewer than
\* three cells is returned unchanged.
C10_PruneKeepsEnds ==
    (p_pc = "done" /\ p_path # <<>>) =>
        /\ pruned_path # <<>>
        /\ IsSubsequence(pruned_path, p_path)
        /\ pruned_path[1] = p_path[1]
        /\ pruned_path[Len(pruned_path)] = p_path[Len(p_path)]
        /\ Len(p_path) < 3 => pruned_path = p_path

\* C11: prune_path is idempotent: for every input path, pruning the path
\* that prune_path returned gives that same path again.
C11_PruneIdempotent ==
    p_pc = "done" => prune_path(pruned_path) = pruned_path

\* the cells of p follow one another by one and the same unit move
IsAxisRun(p) ==
    \E k \in 1 .. Len(Action) :
        \A j \in 1 .. Len(p) - 1 :
            <<p[j + 1][1] - p[j][1], p[j + 1][2] - p[j][2]>> = Action[k].delta

\* C13: for a path of three or more distinct cells that follow one another
\* on one grid line along a single axis, prune_path returns the two-element
\* path of the first and the last cell.
C13_StraightLineToEnds ==
    (p_pc = "done" /\ Len(p_path) >= 3 /\ IsAxisRun(p_path)) =>
        pruned_path = <<p_path[1], p_path[Len(p_path)]>>

\* a line of five cells has been pruned to its two ends
C13_Witness ==
    /\ p_pc = "done"
    /\ Len(p_path) >= 5
    /\ IsAxisRun(p_path)
    /\ Len(pruned_path) = 2
    /\ pruned_path[1] # pruned_path[2]

(***************************************************************************)
(* Claims about the waypoint queue, plan_path and the whole mission.       *)
(***************************************************************************)
\* the cmd_position requests among the commands cs, as waypoints, in order
RECURSIVE PositionCommands(_)
PositionCommands(cs) ==
    IF cs = <<>> THEN <<>>
    ELSE IF Head(cs)[1] = "cmd_position"
    THEN <<SubSeq(Head(cs), 2, 5)>> \o PositionCommands(Tail(cs))
    ELSE PositionCommands(Tail(cs))

IsPrefix(s, t) == Len(s) <= Len(t) /\ SubSeq(t, 1, Len(s)) = s

\* the step is a call of waypoint_transition
WaypointTransitionStep ==
    /\ flight_state' = "WAYPOINT"
    /\ flight_state = "TAKEOFF" \/ commands' # commands \/ raised' = "IndexError"

\* C16: the waypoint queue is assigned once per mission, by plan_path (it
\* has been assigned when the takeoff is requested, and changes afterwards
\* only by losing its head); each waypoint_transition removes the head of
\* the queue and commands that position; the position commands issued are
\* at all times a prefix of the planned waypoints; land is requested only
\* with the queue empty and every planned waypoint commanded.
C16_QueueDiscipline ==
    [][/\ waypoints' # waypoints =>
             \/ flight_state = "ARMING" /\ flight_state' = "PLANNING" /\ plan.status = "none"
             \/ waypoints # <<>> /\ waypoints' = Tail(waypoints) /\ WaypointTransitionStep
       /\ flight_state' = "TAKEOFF" => plan'.status \in {"found", "empty"}
       /\ WaypointTransitionStep =>
             /\ waypoints # <<>>
             /\ waypoints' = Tail(waypoints)
             /\ target_position' = Head(waypoints)
             /\ commands' = Append(commands, <<"cmd_position">> \o Head(waypoints))
       /\ IsPrefix(PositionCommands(commands'), plan'.waypoints)
       /\ (commands' # commands /\ commands'[Len(commands')] = <<"land">>) =>
             /\ waypoints = <<>>
             /\ PositionCommands(commands) = plan.waypoints]_vars

\* the cell c is inside the grid g and not occupied
CellUsable(g, c) == c \in Cells(g) /\ c \notin g.occ

\* C17: when the start or the goal cell plan_path computed is outside the
\* grid or occupied, the while loop of a_star is never entered with it.
C17_EndpointsChecked ==
    a_pc = "loop" => (CellUsable(grid, start) /\ CellUsable(grid, goal))

\* the requests named in names were made, in that order
RequestedInOrder(names) ==
    IsSubsequence(names, [k \in 1 .. Len(commands) |-> commands[k][1]])

\* the mission is over: MANUAL, the flag cleared, after the whole cycle
MissionDone ==
    /\ flight_state = "MANUAL"
    /\ ~in_mission
    /\ RequestedInOrder(<<"arm", "set_home_position", "takeoff", "cmd_position",
                          "land", "disarm", "stop">>)

\* C18: from MANUAL with the mission active, with telemetry that keeps
\* arriving and in time meets each guard, a mission whose planning finds a
\* path ends in MANUAL with in_mission cleared, after arming, planning,
\* takeoff, waypoints, landing and disarming; from then on every telemetry
\* event leaves flight_state = MANUAL and issues no command.
C18_MissionCompletes ==
    /\ (flight_state = "MANUAL" /\ in_mission) ~>
           (plan.status \in {"empty", "raised"} \/ MissionDone)
    /\ [][~in_mission =>
             /\ flight_state' = "MANUAL"
             /\ ~in_mission'
             /\ commands' = commands]_vars

\* a mission with a found plan has ended and a further event has arrived
C18_Witness ==
    /\ MissionDone
    /\ plan.status = "found"
    /\ Len(plan.waypoints) >= 2
    /\ event.from = "MANUAL"

\* C20: the start and goal cells plan_path computes are
\* (floor(local_north) - north_offset, floor(local_east) - east_offset) of
\* the vehicle's and the goal's local position, negative and fractional
\* coordinates included.
C20_CellsAreFloors ==
    a_pc # "idle" =>
        /\ start = <<FloorHalf(local_pos[1]) - cg.north_min,
                     FloorHalf(local_pos[2]) - cg.east_min>>
        /\ goal = <<FloorHalf(local_goal[1]) - cg.north_min,
                    FloorHalf(local_goal[2]) - cg.east_min>>

====
